---- MODULE Spec2Model ----
(***************************************************************************)
(* State/persistence core of the to-do application: StateManager           *)
(* (stateManager.js), TaskManager (taskManager.js), StorageService         *)
(* (storage.js), the helpers they use (helpers.js, validation.js) and the  *)
(* global error listener of App (app.js).                                  *)
(*                                                                         *)
(* The runtime is single threaded: every handler runs to completion, so    *)
(* each handler is one action.  A handler is written as an operator on a   *)
(* "world" record w (all the mutable fields of the three singletons, the   *)
(* localStorage contents and the pending timers) so that nested calls      *)
(* (setState -> logError -> APP_ERROR listener -> showNotification ->      *)
(* setState) compose as in the code.  A JavaScript object whose keys may   *)
(* be missing is a function whose DOMAIN is the set of keys present.       *)
(***************************************************************************)
EXTENDS Integers, Sequences, FiniteSets, TLC

\* ------------------------------------------------------------------------
\* Bounds of the model
\* ------------------------------------------------------------------------
MaxOps == 3        \* calls and auto-hide timer runs in one behaviour of Spec
MaxUiOps == 3      \* the same for SpecUi
MaxCreateOps == 2  \* the same for SpecCreate
MaxNow == 2        \* the clock (Date.now()) runs over 1..MaxNow
MaxRand == 2       \* Math.random() suffixes of generateId: 1..MaxRand
MaxNest == 1       \* nesting depth of setState calls that is followed
MaxStoreOps == 4   \* storage calls in one behaviour of SpecStore
MaxReentryOps == 3 \* setState calls in one behaviour of SpecReentry
MaxAliasOps == 3   \* calls in one behaviour of SpecAlias
MaxHistoryOps == 3 \* calls in one behaviour of SpecHistory
MaxSortOps == 1    \* calls in one behaviour of SpecSort
MaxSortLen == 3    \* tasks in a list handed to sortTasks
MaxLoadOps == 3    \* calls in one behaviour of SpecLoad
MaxNotifyOps == 2  \* calls in one behaviour of SpecNotify

\* ------------------------------------------------------------------------
\* Program constants
\* ------------------------------------------------------------------------
maxHistorySize == 50
TITLE_MAX_LENGTH == 500
MAX_STORAGE_SIZE == 5 * 1024 * 1024
\* JSON.stringify sizes: the {tasks, timestamp, version} envelope of saveTasks
\* and the seven fields of one task without its title.
EnvelopeBytes == 70
TaskBytes == 190

Null == -1                       \* null timestamps (completedAt: null)
NoId == <<>>                     \* null / undefined task id
Priorities == {"low", "medium", "high"}

\* ------------------------------------------------------------------------
\* JavaScript objects as functions with a partial domain
\* ------------------------------------------------------------------------
Has(obj, k) == k \in DOMAIN obj
EmptyObj == [k \in {} |-> TRUE]
\* {...a, ...b}: the keys of both, b winning
Spread(a, b) == [k \in DOMAIN a \cup DOMAIN b |-> IF k \in DOMAIN b THEN b[k] ELSE a[k]]
\* {...obj.k} where obj.k may be undefined (spreading undefined gives {})
SpreadKey(obj, k) == IF Has(obj, k) THEN obj[k] ELSE EmptyObj

Range(s) == {s[i] : i \in DOMAIN s}

\* ------------------------------------------------------------------------
\* helpers.js
\* ------------------------------------------------------------------------
\* 'task_' + Date.now() + '_' + Math.random().toString(36).substr(2, 9)
generateId(ms, rnd) == <<ms, rnd>>

\* sanitizeHtml: textContent -> innerHTML escapes &, < and >
EscapeChar(c) ==
  CASE c = "&" -> <<"&", "a", "m", "p", ";">>
    [] c = "<" -> <<"&", "l", "t", ";">>
    [] c = ">" -> <<"&", "g", "t", ";">>
    [] OTHER -> <<c>>
RECURSIVE sanitizeHtml(_)
sanitizeHtml(str) ==
  IF str = <<>> THEN <<>>
  ELSE IF Len(str) = 1 THEN EscapeChar(str[1])
  ELSE sanitizeHtml(SubSeq(str, 1, Len(str) \div 2))
       \o sanitizeHtml(SubSeq(str, Len(str) \div 2 + 1, Len(str)))

\* String.prototype.trim: from the first to the last character that is not
\* white space
Trim(s) ==
  IF \A i \in DOMAIN s : s[i] = " " THEN <<>>
  ELSE SubSeq(s,
         CHOOSE i \in DOMAIN s : s[i] # " " /\ \A j \in 1..(i - 1) : s[j] = " ",
         CHOOSE i \in DOMAIN s : s[i] # " " /\ \A j \in (i + 1)..Len(s) : s[j] = " ")

\* ------------------------------------------------------------------------
\* validation.js
\* ------------------------------------------------------------------------
WordChars == {"a", "b", "c", "n", "o", "x"}
\* containsDangerousContent: of its patterns only /on\w+\s*=/ can match a
\* title over the alphabet of the model's inputs (the others need "<script",
\* "javascript:", "<iframe", ... in full).
containsDangerousContent(str) ==
  \E i \in DOMAIN str :
    /\ str[i] = "o" /\ i + 1 \in DOMAIN str /\ str[i + 1] = "n"
    /\ \E k \in (i + 3)..Len(str) :
         /\ str[k] = "="
         /\ \E j \in (i + 2)..(k - 1) :
              /\ \A m \in (i + 2)..j : str[m] \in WordChars
              /\ \A m \in (j + 1)..(k - 1) : str[m] = " "

\* TaskValidator.validateTitle: input [hasTitle, title]; the set of errors
\* (a missing title is [hasTitle |-> FALSE, title |-> <<>>])
validateTitleNoChecks(input) == {}
validateTitle(input) ==
  IF ~input.hasTitle \/ input.title = <<>> THEN {"required"}
  ELSE LET trimmed == Trim(input.title) IN
    IF Len(trimmed) = 0 THEN {"empty"}
    ELSE (IF Len(trimmed) > TITLE_MAX_LENGTH THEN {"tooLong"} ELSE {})
         \cup (IF containsDangerousContent(trimmed) THEN {"dangerous"} ELSE {})

\* TaskValidator.validatePriority: "" stands for a missing (falsy) priority
validatePriority(priority) ==
  IF priority = "" THEN {}
  ELSE IF priority \notin Priorities THEN {"priority"} ELSE {}

\* ------------------------------------------------------------------------
\* stateManager.js: the state tree
\* ------------------------------------------------------------------------
\* getInitialState (lastUpdated, the notification text and the date based
\* statistics are timestamps and texts no operation reads back)
InitialFilters == [status |-> "all", priority |-> "all", searchQuery |-> ""]
InitialNotification == [type |-> "info", visible |-> FALSE, autoHide |-> TRUE]
InitialUi ==
  [theme |-> "light", sidebarOpen |-> FALSE, modalOpen |-> FALSE, currentModal |-> "",
   notification |-> InitialNotification, loading |-> FALSE, editingTaskId |-> NoId]
InitialSettings ==
  [maxTasks |-> 1000, autoSave |-> TRUE, confirmDeletion |-> TRUE,
   showCompletedTasks |-> TRUE, taskSortBy |-> "createdAt", taskSortDirection |-> "desc"]
Statistics(tasks) ==
  [totalTasks |-> Len(tasks),
   completedTasks |-> Len(SelectSeq(tasks, LAMBDA t : t.completed)),
   activeTasks |-> Len(SelectSeq(tasks, LAMBDA t : ~t.completed))]
getInitialState ==
  [tasks |-> <<>>, filters |-> InitialFilters, ui |-> InitialUi,
   settings |-> InitialSettings, statistics |-> Statistics(<<>>)]

\* The result of a call that may throw
Ok(v) == [threw |-> FALSE, value |-> v]
Threw == [threw |-> TRUE, value |-> EmptyObj]

\* findIndex / find by id: the first index, 0 when there is none
IndexOf(tasks, id) ==
  IF \E i \in DOMAIN tasks : tasks[i].id = id
  THEN CHOOSE i \in DOMAIN tasks :
         tasks[i].id = id /\ \A j \in DOMAIN tasks : tasks[j].id = id => i <= j
  ELSE 0

\* the last index holding the id (a Map filled in order keeps the last value)
IndexOfLast(tasks, id) ==
  CHOOSE i \in DOMAIN tasks :
    tasks[i].id = id /\ \A j \in DOMAIN tasks : tasks[j].id = id => j <= i

\* The update functions handed to setState, applied to deepClone(state).
\* Each returns only the keys it names: that object is what applyUpdates
\* hands back.  Spreading or indexing an undefined key throws a TypeError.
UpdateFn(u, state) ==
  CASE u.kind = "addTask" ->
         IF Has(state, "tasks") THEN Ok([tasks |-> Append(state.tasks, u.task)]) ELSE Threw
    [] u.kind = "updateTask" ->
         IF Has(state, "tasks")
         THEN Ok([tasks |-> [state.tasks EXCEPT ![u.index] = Spread(@, u.updates)]])
         ELSE Threw
    [] u.kind = "deleteTask" ->
         IF Has(state, "tasks")
         THEN Ok([tasks |-> SelectSeq(state.tasks, LAMBDA t : t.id # u.id)])
         ELSE Threw
    [] u.kind = "deleteMultipleTasks" ->
         IF Has(state, "tasks")
         THEN Ok([tasks |-> SelectSeq(state.tasks, LAMBDA t : t.id \notin u.ids)])
         ELSE Threw
    [] u.kind = "clearCompletedTasks" ->
         IF Has(state, "tasks")
         THEN Ok([tasks |-> SelectSeq(state.tasks, LAMBDA t : ~t.completed)])
         ELSE Threw
    [] u.kind = "setFilter" ->
         Ok([filters |-> Spread(SpreadKey(state, "filters"), u.filter)])
    [] u.kind = "clearFilters" -> Ok([filters |-> InitialFilters])
    [] u.kind = "setTheme" ->
         Ok([ui |-> Spread(SpreadKey(state, "ui"), [theme |-> u.theme])])
    [] u.kind = "toggleSidebar" ->
         IF Has(state, "ui")
         THEN Ok([ui |-> Spread(state.ui,
                   [sidebarOpen |-> IF Has(state.ui, "sidebarOpen")
                                    THEN ~state.ui.sidebarOpen ELSE TRUE])])
         ELSE Threw
    [] u.kind = "openModal" ->
         Ok([ui |-> Spread(SpreadKey(state, "ui"),
                           [modalOpen |-> TRUE, currentModal |-> u.modalType])])
    [] u.kind = "closeModal" ->
         Ok([ui |-> Spread(SpreadKey(state, "ui"),
                           [modalOpen |-> FALSE, currentModal |-> ""])])
    [] u.kind = "showNotification" ->
         Ok([ui |-> Spread(SpreadKey(state, "ui"), [notification |-> u.notification])])
    [] u.kind = "hideNotification" ->
         IF Has(state, "ui")
         THEN Ok([ui |-> Spread(state.ui,
                   [notification |-> Spread(SpreadKey(state.ui, "notification"),
                                            [visible |-> FALSE])])])
         ELSE Threw
    [] u.kind = "setLoading" ->
         Ok([ui |-> Spread(SpreadKey(state, "ui"), [loading |-> u.loading])])
    [] u.kind = "setEditingTask" ->
         Ok([ui |-> Spread(SpreadKey(state, "ui"), [editingTaskId |-> u.taskId])])

\* mergeDeep(target, source) for the object patches the code passes:
\* {tasks: array} is assigned, {settings: object} is merged key by key
mergeDeep(target, source) ==
  [k \in DOMAIN target \cup DOMAIN source |->
     IF k \notin DOMAIN source THEN target[k]
     ELSE IF k = "settings" THEN Spread(SpreadKey(target, k), source[k])
     ELSE source[k]]

\* applyUpdates: a function's result is returned as it is; an object is merged
\* into a clone of the current state
applyUpdates(state, u) ==
  IF u.kind = "object" THEN Ok(mergeDeep(state, u.patch)) ELSE UpdateFn(u, state)

\* addToHistory: push, then drop the oldest entry past maxHistorySize
addToHistoryKeepsAll(history, state, source) ==
  Append(history, [state |-> state, source |-> source])
addToHistory(history, state, source) ==
  LET h == Append(history, [state |-> state, source |-> source]) IN
  IF Len(h) > maxHistorySize THEN Tail(h) ELSE h

\* ------------------------------------------------------------------------
\* The world: every mutable field of the singletons, localStorage, timers
\* ------------------------------------------------------------------------
\*   state, history, isUpdating   StateManager fields
\*   extSub, extMiddleware        a subscriber / middleware registered through
\*                                subscribe / addMiddleware that calls setState
\*   throwSub                     a subscriber registered through subscribe that
\*                                throws (registered before the one of extSub)
\*   recSub                       a subscriber registered after those that
\*                                keeps the arguments it is called with
\*   cache                        TaskManager.cache
\*   live                         for the ids whose cached object is the very
\*                                object held in state.tasks: its index there
\*   boot, loaded                 how far the asynchronous start-up has come
\*                                ("constructed", "smLoaded", "ready": the
\*                                auto-save subscriber is registered), and the
\*                                tasks loadTasks returned to the constructors
\*   timer                        the pending debouncedSave call and its argument
\*   hideTimer                    a setTimeout(hideNotification) is pending
\*   isAvailable                  StorageService.isAvailable
\*   tasksKey                     localStorage['todoapp_tasks']
\*   uiStateBytes                 size of localStorage['todoapp_ui_state']
\*   settingsKey                  localStorage['todoapp_settings']
\*   held                         the object the last call handed to its caller
\*   appListening                 App.setupGlobalEventListeners has run
\*   now                          Date.now()
\* and what the current handler has done so far (reset when a handler starts):
\*   wrote          localStorage.setItem calls on the tasks key
\*   saveFailed     a saveTasks call returned false
\*   quotaHit       setItem threw 'Storage quota exceeded'
\*   notified       notifySubscribers rounds
\*   invoked        subscriber callbacks invoked
\*   seen           the arguments the subscriber of recSub was called with
\*   reentrantCalls setState calls entered while isUpdating was true
\*   reentrantChanged   one of those changed state, history or notified
\*   burstWrites    tasks-key writes since the debounce timer was last idle
UndefinedTasks == [defined |-> FALSE, tasks |-> <<>>]
DefinedTasks(tasks) == [defined |-> TRUE, tasks |-> tasks]
StateTasksArg(state) ==
  IF Has(state, "tasks") THEN DefinedTasks(state.tasks) ELSE UndefinedTasks

\* ---- storage.js --------------------------------------------------------
\* validateTasks: drops tasks without id or title, truncates the title,
\* coerces priority and completedAt
validateTaskCutsAgain(task) ==
  [id |-> task.id,
   title |-> SubSeq(task.title, 1, IF Len(task.title) <= 1
                                   THEN Len(task.title) ELSE Len(task.title) - 1),
   completed |-> task.completed,
   priority |-> IF task.priority \in Priorities THEN task.priority ELSE "medium",
   createdAt |-> task.createdAt,
   updatedAt |-> task.updatedAt,
   completedAt |-> task.completedAt]
validateTask(task) ==
  [id |-> task.id,
   title |-> SubSeq(task.title, 1, IF Len(task.title) < TITLE_MAX_LENGTH
                                   THEN Len(task.title) ELSE TITLE_MAX_LENGTH),
   completed |-> task.completed,
   priority |-> IF task.priority \in Priorities THEN task.priority ELSE "medium",
   createdAt |-> task.createdAt,
   updatedAt |-> task.updatedAt,
   completedAt |-> task.completedAt]
RECURSIVE MapValidate(_)
MapValidate(tasks) ==
  IF tasks = <<>> THEN <<>> ELSE <<validateTask(Head(tasks))>> \o MapValidate(Tail(tasks))
validateTasks(tasks) ==
  MapValidate(SelectSeq(tasks, LAMBDA t : t.id # NoId /\ t.title # <<>>))

\* new Blob([JSON.stringify({tasks, timestamp, version})]).size
RECURSIVE TitleBytes(_)
TitleBytes(tasks) ==
  IF tasks = <<>> THEN 0 ELSE Len(Head(tasks).title) + TitleBytes(Tail(tasks))
getDataSize(tasks) == EnvelopeBytes + TaskBytes * Len(tasks) + TitleBytes(tasks)

\* getStorageInfo().used: the sizes of the values under the application's keys
\* ("1.0.0" under the version key is 7 bytes)
VersionBytes == 7
\* the {settings, timestamp, version} record of saveSettings: six settings of
\* fixed shape
SettingsBytes == 230
StorageUsed(w) ==
  (IF w.tasksKey.present THEN getDataSize(w.tasksKey.tasks) ELSE 0)
  + (IF w.settingsKey.present THEN SettingsBytes ELSE 0)
  + w.uiStateBytes + VersionBytes

\* setItem's quota test
QuotaExceededNever(used, size) == FALSE
QuotaExceeded(used, size) == used + size > MAX_STORAGE_SIZE

\* setItem(key, value) for a value of the given size: "ok", or the error thrown
setItem(w, size) ==
  IF ~w.isAvailable THEN "unavailable"
  ELSE IF QuotaExceeded(StorageUsed(w), size) THEN "quota"
  ELSE "ok"

RECURSIVE setState(_, _, _, _)
RECURSIVE showNotification(_, _)
RECURSIVE logError(_, _)

\* App.handleAppError, the APP_ERROR listener: App.showNotification
handleAppError(w, d) == showNotification(w, d)

\* helpers.logError: console.error and emit(document, APP_ERROR); dispatchEvent
\* runs the listener synchronously
logError(w, d) == IF w.appListening THEN handleAppError(w, d) ELSE w

\* StorageService.handleStorageError: emits STORAGE_ERROR / NOTIFICATION_SHOW;
\* their listeners only touch the DOM
handleStorageError(w) == w

\* the catch block of saveTasks: logError, handleStorageError, return false
SaveFailed(w, why, d) ==
  [w |-> [handleStorageError(logError(w, d)) EXCEPT
            !.saveFailed = TRUE, !.quotaHit = @ \/ why = "quota"],
   ok |-> FALSE]
\* the try block of saveTasks once validateTasks has returned
SaveValidated(w, validated, res, d) ==
  IF res # "ok" THEN SaveFailed(w, res, d)
  ELSE [w |-> [w EXCEPT !.tasksKey = [present |-> TRUE, tasks |-> validated],
                        !.wrote = @ + 1,
                        !.burstWrites = @ + 1],
        ok |-> TRUE]
\* StorageService.saveTasks(tasks): [w, ok]; validateTasks throws on a value
\* that is not an array
saveTasks(w, arg, d) ==
  IF ~arg.defined THEN SaveFailed(w, "notArray", d)
  ELSE SaveValidated(w, validateTasks(arg.tasks),
                     setItem(w, getDataSize(validateTasks(arg.tasks))), d)

\* StorageService.saveUIState for a value whose serialized size is `bytes`
saveUIState(w, bytes, d) ==
  IF setItem(w, bytes) = "ok" THEN [w EXCEPT !.uiStateBytes = bytes]
  ELSE SaveFailed(w, setItem(w, bytes), d).w

\* validateSettings: every key coerced or replaced by its default
SortKeys == {"createdAt", "updatedAt", "title", "priority"}
validateSettings(settings) ==
  [maxTasks |-> IF ~Has(settings, "maxTasks") \/ settings.maxTasks = 0 THEN 1000
                ELSE IF settings.maxTasks < 1 THEN 1
                ELSE IF settings.maxTasks > 10000 THEN 10000 ELSE settings.maxTasks,
   autoSave |-> IF Has(settings, "autoSave") THEN settings.autoSave ELSE TRUE,
   confirmDeletion |->
     IF Has(settings, "confirmDeletion") THEN settings.confirmDeletion ELSE TRUE,
   showCompletedTasks |->
     IF Has(settings, "showCompletedTasks") THEN settings.showCompletedTasks ELSE TRUE,
   taskSortBy |-> IF Has(settings, "taskSortBy") /\ settings.taskSortBy \in SortKeys
                  THEN settings.taskSortBy ELSE "createdAt",
   taskSortDirection |->
     IF Has(settings, "taskSortDirection") /\ settings.taskSortDirection \in {"asc", "desc"}
     THEN settings.taskSortDirection ELSE "desc"]
\* StorageService.saveSettings(settings)
saveSettings(w, settings, d) ==
  IF setItem(w, SettingsBytes) = "ok"
  THEN [w EXCEPT !.settingsKey = [present |-> TRUE, value |-> validateSettings(settings)]]
  ELSE SaveFailed(w, setItem(w, SettingsBytes), d).w

\* ---- stateManager.js ---------------------------------------------------
\* debounce(saveToStorage, 500): clearTimeout, setTimeout with these arguments
debouncedSave(w, arg) == [w EXCEPT !.timer = [pending |-> TRUE, arg |-> arg]]

\* The update an external subscriber, middleware or update function issues
\* when it calls setState again
ReentrantPatch == [kind |-> "object", patch |-> [tasks |-> <<>>]]

\* the auto-save subscriber TaskManager.init registers:
\* if (source !== 'taskManager.init' && newState.tasks !== prevState.tasks)
AutoSaveSubscriber(w, prev, source) ==
  IF /\ w.boot = "ready"
     /\ source # "taskManager.init"
     /\ (Has(w.state, "tasks") \/ Has(prev, "tasks"))
  THEN debouncedSave(w, StateTasksArg(w.state))
  ELSE w
\* the callbacks of the Set in insertion order: the auto-save subscriber
\* (registered by TaskManager.init), then those registered from outside
Invoked(w) == [w EXCEPT !.invoked = @ + 1]
AutoSaveInvoked(w, prev, source) ==
  IF w.boot = "ready" THEN Invoked(AutoSaveSubscriber(w, prev, source)) ELSE w
\* a subscriber that throws: the catch block inside the forEach callback
ThrowingSubscriber(w, d) == IF w.throwSub THEN logError(Invoked(w), d) ELSE w
\* a subscriber registered through subscribe() that calls setState
ExternalSubscriberSkipped(w, d) == w
ExternalSubscriber(w, d) ==
  IF w.extSub THEN setState(Invoked(w), ReentrantPatch, "subscriber", d) ELSE w
\* notifySubscribers(previousState, newState, source): the subscribers in
\* the order they were registered
\* a subscriber that keeps what it is called with: callback(newState,
\* previousState, source)
RecordingSubscriber(w, newState, previousState, source) ==
  IF w.recSub
  THEN [Invoked(w) EXCEPT !.seen = Append(@, [newState |-> newState,
                                               previousState |-> previousState,
                                               source |-> source])]
  ELSE w
notifySubscribersSwapped(w, prev, source, d) ==
  [RecordingSubscriber(
     ExternalSubscriber(ThrowingSubscriber(AutoSaveInvoked(w, prev, source), d), d),
     prev, w.state, source)
     EXCEPT !.notified = @ + 1]
notifySubscribers(w, prev, source, d) ==
  [RecordingSubscriber(
     ExternalSubscriber(ThrowingSubscriber(AutoSaveInvoked(w, prev, source), d), d),
     w.state, prev, source)
     EXCEPT !.notified = @ + 1]

\* applyMiddleware: the external middleware returns nothing, so the state
\* handed on is unchanged
applyMiddleware(w, d) ==
  IF w.extMiddleware THEN setState(w, ReentrantPatch, "middleware", d) ELSE w

\* handleStateError: logError, emit APP_ERROR, showNotification
handleStateError(w, d) ==
  showNotification(logError(logError(w, d), d), d)

\* the guard at the top of setState
ReentrantNever(w) == FALSE
Reentrant(w) == w.isUpdating

\* updateStatistics throws a TypeError when state.tasks is undefined
updateStatisticsThrows(state) == ~Has(state, "tasks")
updateStatistics(state) == Spread(state, [statistics |-> Statistics(state.tasks)])

\* setState's catch block
CatchStateError(w, d) == handleStateError(logError(w, d), d)
\* this.state = newState; addToHistory; updateStatistics; notifySubscribers
AssignState(w, prev, source, d) ==
  IF updateStatisticsThrows(w.state) THEN CatchStateError(w, d)
  ELSE notifySubscribers([w EXCEPT !.state = updateStatistics(@)], prev, source, d)
\* the try block of setState from applyUpdates on; applied is what
\* applyUpdates returned or threw
TryUpdate(w, applied, prev, source, d) ==
  IF applied.threw THEN CatchStateError(w, d)
  ELSE AssignState([applyMiddleware(w, d) EXCEPT
                      !.state = applied.value,
                      !.live = EmptyObj,
                      !.history = addToHistory(@, prev, source)],
                   prev, source, d)
\* an update function that itself calls setState while it runs
UpdateFnRuns(w, u, d) ==
  IF Has(u, "reenter") /\ u.reenter
  THEN setState(w, ReentrantPatch, "updateFn", d) ELSE w
ApplyAndTry(w, u, prev, source, d) ==
  TryUpdate(w, applyUpdates(w.state, u), prev, source, d)
\* the finally block
FinallyOmitted(w) == w
Finally(w) == [w EXCEPT !.isUpdating = FALSE]
\* what a call entered while isUpdating was true did
CountReentrant(w, result) ==
  IF w.isUpdating
  THEN [result EXCEPT
          !.reentrantCalls = @ + 1,
          !.reentrantChanged = @ \/ result.state # w.state
                                 \/ result.history # w.history
                                 \/ result.notified # w.notified]
  ELSE result
\* setState(updates, source); d is the nesting depth of this call
setState(w, u, source, d) ==
  IF d > MaxNest THEN w
  ELSE CountReentrant(w,
         IF Reentrant(w) THEN w
         ELSE Finally(ApplyAndTry(UpdateFnRuns([w EXCEPT !.isUpdating = TRUE], u, d + 1),
                                  u, w.state, source, d + 1)))

\* showNotification(message, type, options): setState, emit, setTimeout(hide)
\* (the timer is set whether or not setState ignored the call)
showNotificationWith(w, notification, d) ==
  [setState(w, [kind |-> "showNotification", notification |-> notification],
            "showNotification", d)
     EXCEPT !.hideTimer = @ \/ notification.autoHide]
\* the error notification of handleStateError, handleError and handleAppError
ErrorNotification == [type |-> "error", visible |-> TRUE, autoHide |-> TRUE]
showNotification(w, d) == showNotificationWith(w, ErrorNotification, d)

\* A call's result: the world after it, how it ended, what it returned
Result(w, outcome, value) == [w |-> w, outcome |-> outcome, value |-> value]
NoValue == EmptyObj

\* this.storage.saveTasks(this.state.tasks)
SaveStateTasks(w) == saveTasks(w, StateTasksArg(w.state), 0).w

\* StateManager.addTask(taskData)
SM_addTask(w, task) ==
  Result(SaveStateTasks(setState(w, [kind |-> "addTask", task |-> task], "addTask", 0)),
         "ok", task)

\* return this.state.tasks[taskIndex]
UpdatedTask(w, idx) ==
  IF ~Has(w.state, "tasks") THEN Result(w, "typeError", NoValue)
  ELSE Result(w, "ok", w.state.tasks[idx])
UpdateAt(w, idx, updates) ==
  IF idx = 0 THEN Result(w, "notFound", NoValue)
  ELSE UpdatedTask(
         SaveStateTasks(
           setState(w, [kind |-> "updateTask", index |-> idx,
                        updates |-> Spread(updates, [updatedAt |-> w.now])],
                    "updateTask", 0)),
         idx)
\* StateManager.updateTask(taskId, updates)
SM_updateTask(w, id, updates) ==
  IF ~Has(w.state, "tasks") THEN Result(w, "typeError", NoValue)
  ELSE UpdateAt(w, IndexOf(w.state.tasks, id), updates)

DeleteAt(w, idx, id) ==
  IF idx = 0 THEN Result(w, "notFound", NoValue)
  ELSE Result(SaveStateTasks(setState(w, [kind |-> "deleteTask", id |-> id], "deleteTask", 0)),
              "ok", w.state.tasks[idx])
\* StateManager.deleteTask(taskId)
SM_deleteTask(w, id) ==
  IF ~Has(w.state, "tasks") THEN Result(w, "typeError", NoValue)
  ELSE DeleteAt(w, IndexOf(w.state.tasks, id), id)

\* StateManager.toggleTaskComplete(taskId)
SM_toggleTaskComplete(w, id) ==
  IF ~Has(w.state, "tasks") THEN Result(w, "typeError", NoValue)
  ELSE LET idx == IndexOf(w.state.tasks, id) IN
    IF idx = 0 THEN Result(w, "notFound", NoValue)
    ELSE LET wasCompleted == w.state.tasks[idx].completed IN
         SM_updateTask(w, id, [completed |-> ~wasCompleted,
                               completedAt |-> IF ~wasCompleted THEN w.now ELSE Null])

\* StateManager.clearCompletedTasks()
SM_clearCompletedTasks(w) ==
  IF ~Has(w.state, "tasks") THEN Result(w, "typeError", NoValue)
  ELSE Result(setState(w, [kind |-> "clearCompletedTasks"], "clearCompletedTasks", 0),
              "ok", SelectSeq(w.state.tasks, LAMBDA t : t.completed))

\* undo after this.state = previousState.state
UndoTo(w) ==
  IF updateStatisticsThrows(w.state) THEN Result(w, "typeError", NoValue)
  ELSE Result(notifySubscribers([w EXCEPT !.state = updateStatistics(@)],
                                EmptyObj, "undo", 0),
              "ok", NoValue)
\* this.history.pop()
ShiftedEntry(h) == h[1]
PoppedEntry(h) == h[Len(h)]
\* StateManager.undo()
undo(w) ==
  IF w.history = <<>> THEN Result(w, "nothingToUndo", NoValue)
  ELSE UndoTo([w EXCEPT !.history = SubSeq(@, 1, Len(@) - 1),
                        !.live = EmptyObj,
                        !.state = PoppedEntry(w.history).state])

\* StateManager.reset()
reset(w) ==
  Result(notifySubscribers([w EXCEPT !.state = getInitialState, !.live = EmptyObj,
                                     !.history = <<>>],
                           EmptyObj, "reset", 0),
         "ok", NoValue)

\* ---- taskManager.js ----------------------------------------------------
\* the catch blocks of the facade: logError, handleError (emit APP_ERROR,
\* state.showNotification), rethrow
handleError(w) == showNotification(logError(w, 0), 0)
FacadeCatch(w, outcome) == Result(handleError(logError(w, 0)), outcome, NoValue)

\* TaskManager.getTask(taskId): the cache first, then the state
TM_getTask(w, id) ==
  IF id \in DOMAIN w.cache THEN Result(w, "ok", w.cache[id])
  ELSE IF ~Has(w.state, "tasks") THEN Result(w, "typeError", NoValue)
  ELSE LET idx == IndexOf(w.state.tasks, id) IN
    IF idx = 0 THEN Result(w, "notFound", NoValue)
    ELSE Result([w EXCEPT !.cache = Spread(@, [k \in {id} |-> w.state.tasks[idx]]),
                          !.live = Spread(@, [k \in {id} |-> idx])],
                "ok", w.state.tasks[idx])

\* where in state.tasks the object just returned by StateManager sits: addTask
\* returns the object it appended, updateTask the one at the index it found
ObjectIndex(w, task, appended) ==
  IF ~Has(w.state, "tasks") THEN 0
  ELSE IF appended
       THEN (IF w.state.tasks # <<>> /\ w.state.tasks[Len(w.state.tasks)] = task
             THEN Len(w.state.tasks) ELSE 0)
       ELSE IndexOf(w.state.tasks, task.id)
\* cache.set(id, task) with an object that sits at state.tasks[idx] (0: nowhere)
CacheSetAt(w, id, task, idx) ==
  [w EXCEPT !.cache = Spread(@, [k \in {id} |-> task]),
            !.live = IF idx = 0 THEN [k \in DOMAIN @ \ {id} |-> @[k]]
                     ELSE Spread(@, [k \in {id} |-> idx])]
CacheSet(w, id, task, appended) == CacheSetAt(w, id, task, ObjectIndex(w, task, appended))
CacheDelete(w, ids) ==
  [w EXCEPT !.cache = [k \in DOMAIN @ \ ids |-> @[k]],
            !.live = [k \in DOMAIN @ \ ids |-> @[k]]]

\* validateTaskData
validateTaskData(input) ==
  validateTitle(input) \cup validatePriority(input.priority)

\* the end of a facade call: the catch block, or cache.set and return
CacheResult(r, id, appended) ==
  IF r.outcome # "ok" THEN FacadeCatch(r.w, r.outcome)
  ELSE Result(CacheSet(r.w, id, r.value, appended), "ok", r.value)
\* the end of a facade call that deletes: the catch block, or cache.delete
UncacheResult(r, ids) ==
  IF r.outcome # "ok" THEN FacadeCatch(r.w, r.outcome)
  ELSE Result(CacheDelete(r.w, ids), "ok", r.value)

\* the task createTask builds
NewTask(input, now, rnd) ==
  [id |-> generateId(now, rnd),
   title |-> sanitizeHtml(Trim(input.title)),
   completed |-> FALSE,
   priority |-> IF input.priority = "" THEN "medium" ELSE input.priority,
   createdAt |-> now,
   updatedAt |-> now,
   completedAt |-> Null]
\* TaskManager.createTask(taskData); rnd is the Math.random() of generateId
createTask(w, input, rnd) ==
  IF validateTaskData(input) # {} THEN FacadeCatch(w, "validation")
  ELSE CacheResult(SM_addTask(w, NewTask(input, w.now, rnd)), generateId(w.now, rnd), TRUE)

\* validateTaskUpdates
validateTaskUpdates(patch) ==
  (IF Has(patch, "title") THEN validateTitle([hasTitle |-> TRUE, title |-> patch.title])
   ELSE {})
  \cup (IF Has(patch, "priority") THEN validatePriority(patch.priority) ELSE {})

\* the completedAt part of updateTask's sanitized updates
CompletedAtUpdate(existing, completed, now) ==
  IF completed /\ ~existing.completed THEN [completedAt |-> now]
  ELSE IF ~completed /\ existing.completed THEN [completedAt |-> Null]
  ELSE EmptyObj
\* updateTask's sanitizedUpdates
SanitizedUpdates(patch, existing, now) ==
  Spread(Spread(Spread(
    IF Has(patch, "title") THEN [title |-> sanitizeHtml(Trim(patch.title))]
    ELSE EmptyObj,
    IF Has(patch, "completed")
    THEN Spread([completed |-> patch.completed],
                CompletedAtUpdate(existing, patch.completed, now))
    ELSE EmptyObj),
    IF Has(patch, "priority") THEN [priority |-> patch.priority] ELSE EmptyObj),
    [updatedAt |-> now])

\* updateTask once getTask has returned g
UpdateExisting(g, id, patch) ==
  IF g.outcome # "ok" THEN FacadeCatch(g.w, g.outcome)
  ELSE IF validateTaskUpdates(patch) # {} THEN FacadeCatch(g.w, "validation")
  ELSE CacheResult(SM_updateTask(g.w, id, SanitizedUpdates(patch, g.value, g.w.now)),
                   id, FALSE)
\* TaskManager.updateTask(taskId, updates)
updateTask(w, id, patch) == UpdateExisting(TM_getTask(w, id), id, patch)

DeleteExisting(g, id) ==
  IF g.outcome # "ok" THEN FacadeCatch(g.w, g.outcome)
  ELSE UncacheResult(SM_deleteTask(g.w, id), {id})
\* TaskManager.deleteTask(taskId)
deleteTask(w, id) == DeleteExisting(TM_getTask(w, id), id)

ToggleExisting(g, id) ==
  IF g.outcome # "ok" THEN FacadeCatch(g.w, g.outcome)
  ELSE CacheResult(SM_toggleTaskComplete(g.w, id), id, FALSE)
\* TaskManager.toggleTaskComplete(taskId)
toggleTaskComplete(w, id) == ToggleExisting(TM_getTask(w, id), id)

ClearedResult(r) == UncacheResult(r, {t.id : t \in Range(r.value)})
\* TaskManager.clearCompletedTasks()
clearCompletedTasks(w) == ClearedResult(SM_clearCompletedTasks(w))

\* A value under the tasks key that the program did not write: text that is
\* not JSON ("unparsable"), or JSON whose tasks member is not an array
\* ("noArray", an object with the members of .tasks)
Corrupt(key) == Has(key, "corrupt")
\* getItem's catch block: JSON.parse threw, logError, return null
getItemLogs(w, d) ==
  IF w.isAvailable /\ Corrupt(w.tasksKey) /\ w.tasksKey.corrupt = "unparsable"
  THEN logError(w, d) ELSE w
loadTasksTrusting(w) ==
  IF w.isAvailable /\ w.tasksKey.present THEN validateTasks(w.tasksKey.tasks) ELSE <<>>
\* StorageService.loadTasks(): the validated tasks of the stored record; []
\* when getItem returns null or data.tasks is not an array
loadTasks(w) ==
  IF w.isAvailable /\ w.tasksKey.present /\ ~Corrupt(w.tasksKey)
  THEN validateTasks(w.tasksKey.tasks) ELSE <<>>

\* loadFromStorage after setState: cache.clear, cache.set for each task
Recache(w, tasks) ==
  Result([w EXCEPT !.cache = [id \in {t.id : t \in Range(tasks)} |->
                                tasks[IndexOfLast(tasks, id)]],
                   !.live = [id \in {t.id : t \in Range(tasks)} |->
                               IndexOfLast(tasks, id)]],
         "ok", tasks)
\* TaskManager.loadFromStorage()
loadFromStorage(w) ==
  Recache(setState(getItemLogs(w, 0), [kind |-> "object", patch |-> [tasks |-> loadTasks(w)]],
                   "taskManager.loadFromStorage", 0),
          loadTasks(w))

\* ---- storage.js: backup and restore ---------------------------------------
\* loadSettings: the validated stored settings, or the defaults
loadSettings(w) ==
  IF w.isAvailable /\ w.settingsKey.present THEN validateSettings(w.settingsKey.value)
  ELSE validateSettings(EmptyObj)
\* the serialized size of what loadUIState returns: the defaults when nothing
\* is stored, and a search query cut to 200 characters
UiDefaultBytes == 160
SearchQueryMax == 200
loadUIStateBytes(w) ==
  IF ~w.isAvailable \/ w.uiStateBytes = 0 THEN UiDefaultBytes
  ELSE IF w.uiStateBytes > UiDefaultBytes + SearchQueryMax
       THEN UiDefaultBytes + SearchQueryMax
       ELSE w.uiStateBytes
CURRENT_VERSION == <<"1", ".", "0", ".", "0">>
\* exportData(): the parsed form of the JSON text it returns
exportData(w) ==
  [tasks |-> DefinedTasks(loadTasks(w)),
   version |-> CURRENT_VERSION,
   settings |-> [present |-> TRUE, value |-> loadSettings(w)],
   uiBytes |-> loadUIStateBytes(w)]
\* validateImportData: tasks must be an array, a version must start with "1."
validateImportData(data) ==
  /\ data.tasks.defined
  /\ (data.version = <<>> \/ (Len(data.version) >= 2 /\ data.version[1] = "1"
                                                      /\ data.version[2] = "."))
\* the three steps of importData; each save call returns false when it fails
\* and throws nothing
ImportTasks(w, data) == saveTasks(w, data.tasks, 0).w
ImportSettings(w, data) ==
  IF data.settings.present THEN saveSettings(w, data.settings.value, 0) ELSE w
ImportUIState(w, data) ==
  IF data.uiBytes > 0 THEN saveUIState(w, data.uiBytes, 0) ELSE w
\* importData(jsonData): the backup (exportData) only reads; the catch block
\* that restores it runs when a step throws
importData(w, data) ==
  IF ~validateImportData(data) THEN Result(logError(w, 0), "failed", NoValue)
  ELSE Result(ImportUIState(ImportSettings(ImportTasks(getItemLogs(w, 0), data), data), data),
              "success", NoValue)

\* TaskManager.saveToStorage(tasks), run by the debounce timer
saveToStorage(w) ==
  [saveTasks(w, w.timer.arg, 0).w EXCEPT !.timer = [pending |-> FALSE, arg |-> UndefinedTasks]]

\* ------------------------------------------------------------------------
\* The state machine
\* ------------------------------------------------------------------------
VARIABLES
  state, history, isUpdating,        \* StateManager
  extSub, extMiddleware, throwSub,   \* external subscribers / middleware registered
  recSub,
  cache, live, boot, loaded, timer,  \* TaskManager, its start-up and debounce timer
  hideTimer,                         \* showNotification's auto-hide timer
  isAvailable, tasksKey, uiStateBytes, settingsKey, \* StorageService and localStorage
  held,                              \* the caller's reference to the last result
  appListening,                      \* App
  now,                               \* the clock
  ops,                               \* caller operations so far
  ret,                               \* the last handler: [op, outcome]
  obs                                \* what the last handler did (see above)

vars == <<state, history, isUpdating, extSub, extMiddleware, throwSub, recSub, cache, live, boot,
          loaded, timer, hideTimer, isAvailable, tasksKey, uiStateBytes, settingsKey, held,
          appListening, now, ops, ret, obs>>

\* A reference handed to a caller: what it points at (a task, a copy of the
\* task array, the state tree), the value there, and for a task whether it is
\* the object in state.tasks (index, 0 when it is not) and / or in the cache
NoHeld == [kind |-> "none", index |-> 0, cached |-> FALSE, value |-> EmptyObj]
\* localStorage without the settings key
NoSettings == [present |-> FALSE, value |-> EmptyObj]

\* The world a handler starts in
W ==
  [state |-> state, history |-> history, isUpdating |-> isUpdating,
   extSub |-> extSub, extMiddleware |-> extMiddleware, throwSub |-> throwSub,
   recSub |-> recSub, seen |-> <<>>,
   cache |-> cache, live |-> live, boot |-> boot, loaded |-> loaded, timer |-> timer,
   hideTimer |-> hideTimer,
   isAvailable |-> isAvailable, tasksKey |-> tasksKey, uiStateBytes |-> uiStateBytes,
   settingsKey |-> settingsKey, held |-> NoHeld,
   appListening |-> appListening, now |-> now,
   wrote |-> 0, saveFailed |-> FALSE, quotaHit |-> FALSE, notified |-> 0, invoked |-> 0,
   reentrantCalls |-> 0, reentrantChanged |-> FALSE,
   burstWrites |-> IF timer.pending THEN obs.burstWrites ELSE 0]

\* The world a handler leaves.  ret is the call just made: its name, how it
\* ended and its argument; ref is, for a facade call, how the same call ends
\* from the same world with a store that works
NoRef == [outcome |-> "none", tasks |-> UndefinedTasks]
CommitRef(w, op, outcome, arg, reference) ==
  /\ state' = w.state /\ history' = w.history /\ isUpdating' = w.isUpdating
  /\ extSub' = w.extSub /\ extMiddleware' = w.extMiddleware /\ throwSub' = w.throwSub
  /\ recSub' = w.recSub
  /\ cache' = w.cache /\ live' = w.live
  /\ boot' = w.boot /\ loaded' = w.loaded /\ timer' = w.timer
  /\ hideTimer' = w.hideTimer
  /\ isAvailable' = w.isAvailable /\ tasksKey' = w.tasksKey
  /\ uiStateBytes' = w.uiStateBytes /\ settingsKey' = w.settingsKey
  /\ held' = w.held
  /\ appListening' = w.appListening /\ now' = w.now
  /\ ret' = [op |-> op, outcome |-> outcome, arg |-> arg]
  /\ obs' = [wrote |-> w.wrote, saveFailed |-> w.saveFailed, quotaHit |-> w.quotaHit,
             notified |-> w.notified, invoked |-> w.invoked, seen |-> w.seen,
             reentrantCalls |-> w.reentrantCalls,
             reentrantChanged |-> w.reentrantChanged, burstWrites |-> w.burstWrites,
             ref |-> reference]
Commit(w, op, outcome) == CommitRef(w, op, outcome, NoValue, NoRef)

\* a call from outside: the callers are the UI components, which App.init
\* creates once taskManager.isReady()
CallerOp(budget) == boot = "ready" /\ ops < budget /\ ops' = ops + 1
\* a timer callback that can set its own timer again, counted with the calls
TimerOp(budget) == ops < budget /\ ops' = ops + 1
Background == ops' = ops

\* A task a previous session left under the tasks key
StoredTask ==
  [id |-> generateId(0, 1), title |-> <<"s">>, completed |-> FALSE, priority |-> "low",
   createdAt |-> 0, updatedAt |-> 0, completedAt |-> Null]
StoredChoices == {[present |-> FALSE, tasks |-> <<>>], [present |-> TRUE, tasks |-> <<StoredTask>>]}

\* After the module-level constructors have run: StorageService has probed
\* localStorage, both StateManager and TaskManager.init have called loadTasks
\* and their continuations are queued
InitWith(stored, available) ==
  /\ state = getInitialState /\ history = <<>> /\ isUpdating = FALSE
  /\ extSub = FALSE /\ extMiddleware = FALSE /\ throwSub = FALSE /\ recSub = FALSE
  /\ cache = EmptyObj /\ live = EmptyObj /\ boot = "constructed"
  /\ settingsKey = NoSettings /\ held = NoHeld
  /\ isAvailable = available
  /\ tasksKey = stored
  /\ loaded = loadTasks([isAvailable |-> available, tasksKey |-> stored])
  /\ timer = [pending |-> FALSE, arg |-> UndefinedTasks]
  /\ hideTimer = FALSE
  /\ uiStateBytes = 0
  /\ appListening = FALSE
  /\ now = 1 /\ ops = 0
  /\ ret = [op |-> "init", outcome |-> "ok", arg |-> NoValue]
  /\ obs = [wrote |-> 0, saveFailed |-> FALSE, quotaHit |-> FALSE, notified |-> 0,
            invoked |-> 0, seen |-> <<>>, reentrantCalls |-> 0, reentrantChanged |-> FALSE,
            burstWrites |-> 0, ref |-> NoRef]

Init == \E stored \in StoredChoices : \E available \in BOOLEAN : InitWith(stored, available)

\* ---- start-up continuations --------------------------------------------
\* if (tasks.length > 0) setState({ tasks }, source)
SetLoaded(w, source) ==
  IF w.loaded # <<>>
  THEN setState(w, [kind |-> "object", patch |-> [tasks |-> w.loaded]], source, 0)
  ELSE w
\* StateManager constructor: storage.loadTasks().then(tasks => ...)
SmLoadCallback ==
  /\ boot = "constructed" /\ Background
  /\ Commit([SetLoaded(W, "init:loadTasks") EXCEPT !.boot = "smLoaded"],
            "init:loadTasks", "ok")

\* TaskManager.init after its await: setState, then subscribe
TmInit ==
  /\ boot = "smLoaded" /\ Background
  /\ Commit([SetLoaded(W, "taskManager.init") EXCEPT !.boot = "ready"],
            "taskManager.init", "ok")

\* App.setupGlobalEventListeners (App.init waits for taskManager.isReady())
SetupGlobalEventListeners ==
  /\ boot = "ready" /\ ~appListening /\ Background
  /\ Commit([W EXCEPT !.appListening = TRUE], "setupGlobalEventListeners", "ok")

\* ---- the facade --------------------------------------------------------
Call(r, op) == Commit(r.w, op, r.outcome)
WorkingStore(w) == [w EXCEPT !.isAvailable = TRUE, !.uiStateBytes = 0]
\* the caller's reference to a task object a call returned
HeldTask(w, task) ==
  [kind |-> "task",
   index |-> IF task.id \in DOMAIN w.live THEN w.live[task.id] ELSE 0,
   cached |-> task.id \in DOMAIN w.cache,
   value |-> task]
Returned(r) ==
  IF r.outcome = "ok" THEN [r.w EXCEPT !.held = HeldTask(r.w, r.value)] ELSE r.w
FacadeCall(r, reference, op, arg) ==
  CommitRef(Returned(r), op, r.outcome, arg,
            [outcome |-> reference.outcome, tasks |-> StateTasksArg(reference.w.state)])

CreateTask(input, rnd) ==
  FacadeCall(createTask(W, input, rnd), createTask(WorkingStore(W), input, rnd),
             "createTask", input)
UpdateTask(id, patch) ==
  FacadeCall(updateTask(W, id, patch), updateTask(WorkingStore(W), id, patch),
             "updateTask", <<id, patch>>)
DeleteTask(id) ==
  FacadeCall(deleteTask(W, id), deleteTask(WorkingStore(W), id), "deleteTask", id)
\* the argument of toggleTaskComplete, with the completed flag the task of
\* that id has in state.tasks when the call is made
InCollection(st, id) == Has(st, "tasks") /\ IndexOf(st.tasks, id) # 0
TaskOf(st, id) == st.tasks[IndexOf(st.tasks, id)]
ToggleArg(st, id) ==
  [id |-> id, present |-> InCollection(st, id),
   completed |-> InCollection(st, id) /\ TaskOf(st, id).completed]
ToggleTaskComplete(id) ==
  FacadeCall(toggleTaskComplete(W, id), toggleTaskComplete(WorkingStore(W), id),
             "toggleTaskComplete", ToggleArg(state, id))
ClearReturns(r) == CommitRef(r.w, "clearCompletedTasks", r.outcome, r.value, NoRef)
ClearCompletedTasks == ClearReturns(clearCompletedTasks(W))
\* TaskManager.getTask(taskId) called by a component
GetTaskReturns(r, id) == CommitRef(Returned(r), "getTask", r.outcome, id, NoRef)
GetTask(id) == GetTaskReturns(TM_getTask(W, id), id)
\* TaskManager.getAllTasks(): StateManager.getAllTasks, [...this.state.tasks];
\* the array is new, its elements are the objects of state.tasks
HeldTasks(w) ==
  [kind |-> "tasks",
   index |-> IF w.state.tasks = <<>> THEN 0 ELSE 1,
   cached |-> /\ w.state.tasks # <<>>
              /\ w.state.tasks[1].id \in DOMAIN w.live
              /\ w.live[w.state.tasks[1].id] = 1,
   value |-> w.state.tasks]
getAllTasks(w) ==
  IF ~Has(w.state, "tasks") THEN Result(w, "typeError", NoValue)
  ELSE Result([w EXCEPT !.held = HeldTasks(w)], "ok", w.state.tasks)
GetAllTasks == Call(getAllTasks(W), "getAllTasks")
LoadFromStorage == Call(loadFromStorage(W), "loadFromStorage")

\* ---- StateManager's public operations ----------------------------------
\* helpers.deepClone: arrays and objects are rebuilt level by level, so the
\* result shares no object with its argument
deepCloneShares(ref) == ref
deepClone(ref) == [ref EXCEPT !.index = 0, !.cached = FALSE]
\* getState(): deepClone(this.state)
getState(w) ==
  deepClone([kind |-> "state", index |-> 1, cached |-> FALSE, value |-> w.state])
GetState == Commit([W EXCEPT !.held = getState(W)], "getState", "ok")

\* The caller writes into what it holds: a task's title, the first task of an
\* array, or (for a state tree) a setting and the first task.  What it wrote
\* shows wherever the same object is referenced.
MutatedTask(task) == [task EXCEPT !.title = <<"m">>]
MutatedTree(tree) ==
  [k \in DOMAIN tree |->
     IF k = "settings" THEN Spread(tree[k], [maxTasks |-> 0])
     ELSE IF k = "tasks" /\ tree[k] # <<>> THEN [tree[k] EXCEPT ![1] = MutatedTask(@)]
     ELSE tree[k]]
MutatedValue(h) ==
  CASE h.kind = "task" -> MutatedTask(h.value)
    [] h.kind = "tasks" -> IF h.value = <<>> THEN <<>> ELSE [h.value EXCEPT ![1] = MutatedTask(@)]
    [] h.kind = "state" -> MutatedTree(h.value)
MutatedState(st, h) ==
  IF h.index = 0 THEN st
  ELSE IF h.kind = "state" THEN MutatedTree(st)
  ELSE [st EXCEPT !.tasks[h.index] = MutatedTask(@)]
MutatedCache(c, st, h) ==
  IF ~h.cached THEN c
  ELSE IF h.kind = "task" THEN [c EXCEPT ![h.value.id] = MutatedTask(@)]
  ELSE [c EXCEPT ![st.tasks[1].id] = MutatedTask(@)]
MutateReturned ==
  /\ held.kind # "none" /\ Background
  /\ Commit([W EXCEPT !.state = MutatedState(state, held),
                      !.cache = MutatedCache(cache, state, held),
                      !.held = [held EXCEPT !.value = MutatedValue(held)]],
            "mutate", "ok")

Undo == Call(undo(W), "undo")
Reset == Call(reset(W), "reset")
UiOp(u, op) == Commit(setState(W, u, op, 0), op, "ok")
SetFilter(type, value) ==
  UiOp([kind |-> "setFilter", filter |-> [k \in {type} |-> value]], "setFilter")
ClearFilters == UiOp([kind |-> "clearFilters"], "clearFilters")
SetTheme(theme) == UiOp([kind |-> "setTheme", theme |-> theme], "setTheme")
ToggleSidebar == UiOp([kind |-> "toggleSidebar"], "toggleSidebar")
OpenModal(modalType) == UiOp([kind |-> "openModal", modalType |-> modalType], "openModal")
CloseModal == UiOp([kind |-> "closeModal"], "closeModal")
ShowNotification(notification) ==
  Commit(showNotificationWith(W, notification, 0), "showNotification", "ok")
HideNotification == UiOp([kind |-> "hideNotification"], "hideNotification")
SetLoading(loading) == UiOp([kind |-> "setLoading", loading |-> loading], "setLoading")
SetEditingTask(taskId) ==
  UiOp([kind |-> "setEditingTask", taskId |-> taskId], "setEditingTask")

\* ---- timers and the clock ----------------------------------------------
\* the debounce timer fires 500 ms after the last debouncedSave call
DebouncedSaveFires ==
  /\ timer.pending /\ Background
  /\ Commit(saveToStorage(W), "debouncedSave", "ok")

\* the auto-hide timer fires: hideNotification()
HideTimerFires(budget) ==
  /\ hideTimer /\ TimerOp(budget)
  /\ Commit(setState([W EXCEPT !.hideTimer = FALSE], [kind |-> "hideNotification"],
                     "hideNotification", 0),
            "hideTimer", "ok")

Tick ==
  /\ now < MaxNow /\ now' = now + 1
  /\ UNCHANGED <<state, history, isUpdating, extSub, extMiddleware, throwSub, recSub, cache, live,
                 boot, loaded, timer, hideTimer, isAvailable, tasksKey, uiStateBytes,
                 settingsKey, held, appListening, ops, ret, obs>>

\* ---- inputs ------------------------------------------------------------
TitleInput(title, priority) == [hasTitle |-> TRUE, title |-> title, priority |-> priority]
MissingTitle == [hasTitle |-> FALSE, title |-> <<>>, priority |-> ""]
LongTitle == [i \in 1..(TITLE_MAX_LENGTH + 1) |-> "x"]
ValidInputs == {TitleInput(<<"a">>, ""), TitleInput(<<" ", "b", "<", " ">>, "high")}
InvalidTitleInputs ==
  {MissingTitle, TitleInput(<<>>, ""), TitleInput(<<" ", " ">>, "low"),
   TitleInput(<<" ">> \o LongTitle, ""), TitleInput(<<"o", "n", "x", "=">>, "")}
\* a title within the limit that sanitizeHtml lengthens past it
EscapedTitle == TitleInput([i \in 1..126 |-> "<"], "")
InvalidPriorityInputs == {TitleInput(<<"a">>, "urgent")}
Patches == {[completed |-> TRUE], [title |-> <<"c">>], [title |-> <<" ">>]}
MissingId == generateId(0, 0)
KnownIds ==
  (IF Has(state, "tasks") THEN {t.id : t \in Range(state.tasks)} ELSE {})
  \cup DOMAIN cache \cup {MissingId}

ExternalUpdates ==
  {[kind |-> "object", patch |-> [settings |-> [confirmDeletion |-> FALSE]], reenter |-> FALSE],
   [kind |-> "setTheme", theme |-> "dark", reenter |-> TRUE],
   [kind |-> "deleteMultipleTasks", ids |-> {generateId(1, 1)}, reenter |-> TRUE],
   [kind |-> "deleteMultipleTasks", ids |-> {generateId(1, 1)}, reenter |-> FALSE]}
TaskA ==
  [id |-> generateId(1, 1), title |-> <<"a">>, completed |-> FALSE, priority |-> "medium",
   createdAt |-> 1, updatedAt |-> 1, completedAt |-> Null]
TaskB ==
  [id |-> generateId(1, 2), title |-> <<"b", "b">>, completed |-> TRUE, priority |-> "high",
   createdAt |-> 1, updatedAt |-> 1, completedAt |-> 1]
TaskLists == {<<>>, <<TaskA>>, <<TaskB>>, <<TaskA, TaskB>>, <<TaskB, TaskA>>, <<TaskA, TaskA>>}
\* sizes of a stored UI state: a theme, and a filter object that takes the
\* store to within three tasks of the ceiling
UiStateSizes == {60, MAX_STORAGE_SIZE - 2 * EnvelopeBytes - 3 * TaskBytes}

\* ---- calls on StateManager and StorageService from outside the facade ----
\* subscribe(callback) / addMiddleware(fn) with a callback that calls setState
Subscribe ==
  ~extSub /\ ~recSub /\ Background /\ Commit([W EXCEPT !.extSub = TRUE], "subscribe", "ok")
AddMiddleware ==
  ~extMiddleware /\ Background /\ Commit([W EXCEPT !.extMiddleware = TRUE], "addMiddleware", "ok")
\* subscribe(callback) with a callback that throws, registered before the one
\* that calls setState
SubscribeThrowing ==
  /\ ~throwSub /\ ~extSub /\ ~recSub /\ Background
  /\ Commit([W EXCEPT !.throwSub = TRUE], "subscribe", "ok")
\* subscribe(callback) with a callback that keeps its arguments, registered last
SubscribeRecording ==
  ~recSub /\ Background /\ Commit([W EXCEPT !.recSub = TRUE], "subscribe", "ok")
\* setState(updates, source) called directly
SetStateCall(u) == CommitRef(setState(W, u, "external", 0), "setState", "ok", u, NoRef)
\* StorageService.saveTasks(tasks) called directly
SaveTasksReturns(r, tasks) ==
  CommitRef(r.w, "saveTasks", IF r.ok THEN "true" ELSE "false", tasks, NoRef)
StorageSaveTasks(tasks) == SaveTasksReturns(saveTasks(W, DefinedTasks(tasks), 0), tasks)
\* StorageService.saveUIState(uiState) with a state of the given serialized size
StorageSaveUIState(bytes) == Commit(saveUIState(W, bytes, 0), "saveUIState", "ok")
\* StorageService.exportData() and importData(jsonData)
ExportData == CommitRef(getItemLogs(W, 0), "exportData", "ok", exportData(W), NoRef)
\* StorageService.loadTasks() called on its own
LoadTasks == CommitRef(getItemLogs(W, 0), "loadTasks", "ok", loadTasks(W), NoRef)
ImportReturns(r, data) == CommitRef(r.w, "importData", r.outcome, data, NoRef)
ImportData(data) == ImportReturns(importData(W, data), data)
\* what exportData returns for a store that holds the given tasks and settings
StoreWith(tasks, settings) ==
  [isAvailable |-> TRUE, tasksKey |-> [present |-> TRUE, tasks |-> validateTasks(tasks)],
   settingsKey |-> settings, uiStateBytes |-> 0]
\* a task as another program may have written it: title over the limit,
\* unknown priority
RawTask ==
  [id |-> generateId(2, 2), title |-> LongTitle, completed |-> TRUE, priority |-> "urgent",
   createdAt |-> 2, updatedAt |-> 2, completedAt |-> 2]
CustomSettings == [present |-> TRUE, value |-> validateSettings([confirmDeletion |-> FALSE])]
ExportOutputs ==
  {exportData(StoreWith(tasks, st)) :
     tasks \in {<<>>, <<TaskA, TaskB>>, <<RawTask, TaskA>>}, st \in {NoSettings, CustomSettings}}
ImportInputs ==
  ExportOutputs
  \cup {[tasks |-> DefinedTasks(<<RawTask>>), version |-> <<>>, settings |-> NoSettings,
         uiBytes |-> 0],
        [tasks |-> UndefinedTasks, version |-> CURRENT_VERSION, settings |-> NoSettings,
         uiBytes |-> 0],
        [tasks |-> DefinedTasks(<<TaskA>>), version |-> <<"2", ".", "0">>,
         settings |-> NoSettings, uiBytes |-> 0]}

\* ---- the task operations: the facade, undo, start-up, the timer, the clock ----
FacadeOps(budget, inputs) ==
  /\ CallerOp(budget)
  /\ \/ \E input \in inputs : \E rnd \in 1..MaxRand : CreateTask(input, rnd)
     \/ \E id \in KnownIds : \E patch \in Patches : UpdateTask(id, patch)
     \/ \E id \in KnownIds : DeleteTask(id)
     \/ \E id \in KnownIds : ToggleTaskComplete(id)
     \/ ClearCompletedTasks

StartUp == SmLoadCallback \/ TmInit \/ SetupGlobalEventListeners

Next ==
  \/ StartUp
  \/ FacadeOps(MaxOps, ValidInputs \cup {MissingTitle})
  \/ CallerOp(MaxOps) /\ Undo
  \/ DebouncedSaveFires
  \/ HideTimerFires(MaxOps)
  \/ Tick

Spec == Init /\ [][Next]_vars

\* ---- tasks and every filter / UI operation of StateManager ---------------
NextUi ==
  \/ StartUp
  \/ CallerOp(MaxUiOps) /\ \E rnd \in 1..MaxRand : CreateTask(TitleInput(<<"a">>, ""), rnd)
  \/ CallerOp(MaxUiOps) /\ \E v \in {"active", "completed"} : SetFilter("status", v)
  \/ CallerOp(MaxUiOps) /\ ClearFilters
  \/ CallerOp(MaxUiOps) /\ \E theme \in {"light", "dark"} : SetTheme(theme)
  \/ CallerOp(MaxUiOps) /\ ToggleSidebar
  \/ CallerOp(MaxUiOps) /\ OpenModal("confirm")
  \/ CallerOp(MaxUiOps) /\ CloseModal
  \/ CallerOp(MaxUiOps) /\ ShowNotification([type |-> "info", visible |-> TRUE, autoHide |-> FALSE])
  \/ CallerOp(MaxUiOps) /\ HideNotification
  \/ CallerOp(MaxUiOps) /\ SetLoading(TRUE)
  \/ CallerOp(MaxUiOps) /\ \E id \in KnownIds : SetEditingTask(id)
  \/ DebouncedSaveFires
  \/ HideTimerFires(MaxUiOps)

SpecUi == Init /\ [][NextUi]_vars

\* ---- createTask over every kind of input --------------------------------
NextCreate ==
  \/ StartUp
  \/ /\ CallerOp(MaxCreateOps)
     /\ \E input \in ValidInputs \cup {EscapedTitle} \cup InvalidTitleInputs
                        \cup InvalidPriorityInputs :
          \E rnd \in 1..MaxRand : CreateTask(input, rnd)
  \/ DebouncedSaveFires
  \/ HideTimerFires(MaxCreateOps)

SpecCreate == Init /\ [][NextCreate]_vars

\* ---- the store near its ceiling ------------------------------------------
NextStore ==
  \/ StartUp
  \/ CallerOp(MaxStoreOps) /\ \E tasks \in TaskLists : StorageSaveTasks(tasks)
  \/ CallerOp(MaxStoreOps) /\ \E bytes \in UiStateSizes : StorageSaveUIState(bytes)
  \/ CallerOp(MaxStoreOps) /\ ExportData
  \/ CallerOp(MaxStoreOps) /\ \E data \in ImportInputs : ImportData(data)

SpecStore == Init /\ [][NextStore]_vars

\* ---- setState with subscribers, middleware and update functions that ----
\* ---- call setState again ---------------------------------------------------
NextReentry ==
  \/ StartUp
  \/ Subscribe
  \/ SubscribeThrowing
  \/ AddMiddleware
  \/ CallerOp(MaxReentryOps) /\ \E u \in ExternalUpdates : SetStateCall(u)
  \/ CallerOp(MaxReentryOps) /\
       \E input \in {TitleInput(<<"a">>, ""), MissingTitle} : CreateTask(input, 1)
  \/ DebouncedSaveFires

SpecReentry == Init /\ [][NextReentry]_vars

\* ---- callers that write into the values they were handed ----------------
NextAlias ==
  \/ StartUp
  \/ CallerOp(MaxAliasOps) /\ CreateTask(TitleInput(<<"a">>, ""), 1)
  \/ CallerOp(MaxAliasOps) /\ \E id \in KnownIds : UpdateTask(id, [completed |-> TRUE])
  \/ CallerOp(MaxAliasOps) /\ \E id \in KnownIds : ToggleTaskComplete(id)
  \/ CallerOp(MaxAliasOps) /\ \E id \in KnownIds : GetTask(id)
  \/ CallerOp(MaxAliasOps) /\ GetAllTasks
  \/ CallerOp(MaxAliasOps) /\ GetState
  \/ CallerOp(MaxAliasOps) /\ Undo
  \/ MutateReturned
  \/ DebouncedSaveFires
  \/ HideTimerFires(MaxAliasOps)

SpecAlias == Init /\ [][NextAlias]_vars

\* ---- a long session: the history at and near its bound -------------------
\* The application after start-up over an empty store and k calls of
\* setState({}, 'external'), each of which pushes the unchanged state
HistoryLengths == {0, maxHistorySize - 1, maxHistorySize}
FilledHistory(k) == [i \in 1..k |-> [state |-> getInitialState, source |-> "external"]]
InitHistory ==
  \E k \in HistoryLengths :
    /\ state = getInitialState /\ history = FilledHistory(k) /\ isUpdating = FALSE
    /\ extSub = FALSE /\ extMiddleware = FALSE /\ throwSub = FALSE /\ recSub = FALSE
    /\ cache = EmptyObj /\ live = EmptyObj /\ boot = "ready" /\ loaded = <<>>
    /\ timer = [pending |-> FALSE, arg |-> UndefinedTasks] /\ hideTimer = FALSE
    /\ isAvailable = TRUE /\ tasksKey = [present |-> FALSE, tasks |-> <<>>]
    /\ uiStateBytes = 0 /\ settingsKey = NoSettings /\ held = NoHeld
    /\ appListening = FALSE /\ now = 1 /\ ops = 0
    /\ ret = [op |-> "setState", outcome |-> "ok",
              arg |-> [kind |-> "object", patch |-> EmptyObj]]
    /\ obs = [wrote |-> 0, saveFailed |-> FALSE, quotaHit |-> FALSE, notified |-> 0,
              invoked |-> 0, seen |-> <<>>, reentrantCalls |-> 0,
              reentrantChanged |-> FALSE, burstWrites |-> 0, ref |-> NoRef]
HistoryUpdates ==
  {[kind |-> "object", patch |-> EmptyObj],
   [kind |-> "object", patch |-> [settings |-> [confirmDeletion |-> FALSE]]],
   [kind |-> "object", patch |-> [tasks |-> <<TaskA>>]],
   [kind |-> "setTheme", theme |-> "dark"]}
NextHistory ==
  \/ SetupGlobalEventListeners
  \/ CallerOp(MaxHistoryOps) /\ \E u \in HistoryUpdates : SetStateCall(u)
  \/ CallerOp(MaxHistoryOps) /\ CreateTask(TitleInput(<<"a">>, ""), 1)
  \/ CallerOp(MaxHistoryOps) /\ Undo
  \/ DebouncedSaveFires
  \/ HideTimerFires(MaxHistoryOps)

SpecHistory == InitHistory /\ [][NextHistory]_vars

\* ---- TaskManager.sortTasks ------------------------------------------------
\* String.prototype.toLowerCase and the < of strings, on the letters used here
ToLowerChar(c) == CASE c = "A" -> "a" [] c = "B" -> "b" [] OTHER -> c
ToLowerCase(str) == [i \in DOMAIN str |-> ToLowerChar(str[i])]
CharCode(c) ==
  CASE c = " " -> 32 [] c = "A" -> 65 [] c = "B" -> 66 [] c = "a" -> 97 [] c = "b" -> 98
    [] OTHER -> 120
RECURSIVE StringLess(_, _)
StringLess(x, y) ==
  IF y = <<>> THEN FALSE
  ELSE IF x = <<>> THEN TRUE
  ELSE IF CharCode(Head(x)) # CharCode(Head(y)) THEN CharCode(Head(x)) < CharCode(Head(y))
  ELSE StringLess(Tail(x), Tail(y))
validSortFields == {"createdAt", "updatedAt", "title", "priority", "completed"}
priorityOrder(p) == CASE p = "low" -> 1 [] p = "high" -> 3 [] OTHER -> 2
\* aVal / bVal of the comparator
SortValue(task, sortBy) ==
  CASE sortBy = "title" -> ToLowerCase(task.title)
    [] sortBy = "priority" -> priorityOrder(task.priority)
    [] sortBy = "completed" -> IF task.completed THEN 1 ELSE 0
    [] sortBy = "updatedAt" -> task.updatedAt
    [] OTHER -> task.createdAt
ValueLess(x, y, sortBy) == IF sortBy = "title" THEN StringLess(x, y) ELSE x < y
\* the comparator handed to sort
compareTasks(a, b, sortBy, direction) ==
  IF ValueLess(SortValue(a, sortBy), SortValue(b, sortBy), sortBy)
  THEN (IF direction = "asc" THEN -1 ELSE 1)
  ELSE IF ValueLess(SortValue(b, sortBy), SortValue(a, sortBy), sortBy)
  THEN (IF direction = "asc" THEN 1 ELSE -1)
  ELSE 0
\* Array.prototype.sort, a stable sort: each element goes behind every
\* element the comparator does not put after it
RECURSIVE SortInsert(_, _, _, _)
SortInsert(sorted, x, sortBy, direction) ==
  IF sorted = <<>> THEN <<x>>
  ELSE IF compareTasks(sorted[Len(sorted)], x, sortBy, direction) <= 0 THEN Append(sorted, x)
  ELSE Append(SortInsert(SubSeq(sorted, 1, Len(sorted) - 1), x, sortBy, direction),
              sorted[Len(sorted)])
RECURSIVE ArraySort(_, _, _)
ArraySort(array, sortBy, direction) ==
  IF array = <<>> THEN <<>>
  ELSE SortInsert(ArraySort(SubSeq(array, 1, Len(array) - 1), sortBy, direction),
                  array[Len(array)], sortBy, direction)
SortField(sortBy) == IF sortBy \in validSortFields THEN sortBy ELSE "createdAt"
ReverseSeq(q) == [i \in DOMAIN q |-> q[Len(q) + 1 - i]]
sortTasksByReversing(tasks, sortBy, direction) ==
  [input |-> tasks,
   output |-> IF direction = "asc" THEN ArraySort(tasks, SortField(sortBy), "asc")
              ELSE ReverseSeq(ArraySort(tasks, SortField(sortBy), "asc"))]
\* sortTasks(tasks, sortBy, direction): the caller's array after the call
\* (sort runs on the copy [...tasks]) and the array returned
sortTasks(tasks, sortBy, direction) ==
  [input |-> tasks, output |-> ArraySort(tasks, SortField(sortBy), direction)]
SortTasks(tasks, sortBy, direction) ==
  CommitRef([W EXCEPT !.held = [kind |-> "sorted", index |-> 0, cached |-> FALSE,
                                value |-> sortTasks(tasks, sortBy, direction)]],
            "sortTasks", "ok",
            [tasks |-> tasks, sortBy |-> sortBy, direction |-> direction], NoRef)
\* tasks to sort: pairs that agree on a sort field but differ in id
TaskA2 == [TaskA EXCEPT !.id = generateId(2, 1), !.title = <<"A">>, !.updatedAt = 2]
TaskB2 == [TaskB EXCEPT !.id = generateId(2, 2), !.priority = "medium", !.createdAt = 2]
SortPool == {TaskA, TaskB, TaskA2, TaskB2}
SortInputs ==
  UNION {{q \in [1..n -> SortPool] : \A i, j \in 1..n : i # j => q[i] # q[j]} :
           n \in 0..MaxSortLen}
NextSort ==
  \/ StartUp
  \/ /\ CallerOp(MaxSortOps)
     /\ \E tasks \in SortInputs : \E sortBy \in validSortFields \cup {"id"} :
          \E direction \in {"asc", "desc"} : SortTasks(tasks, sortBy, direction)
InitSort == InitWith([present |-> TRUE, tasks |-> <<StoredTask>>], TRUE)
SpecSort == InitSort /\ [][NextSort]_vars

\* ---- subscribers and what they are told -----------------------------------
NextNotify ==
  \/ StartUp
  \/ SubscribeThrowing
  \/ Subscribe
  \/ SubscribeRecording
  \/ CallerOp(MaxNotifyOps) /\ \E u \in ExternalUpdates : SetStateCall(u)
  \/ CallerOp(MaxNotifyOps) /\
       \E input \in {TitleInput(<<"a">>, ""), MissingTitle} : CreateTask(input, 1)
  \/ DebouncedSaveFires
SpecNotify == Init /\ [][NextNotify]_vars

\* ---- start-up over a damaged store -----------------------------------------
CorruptChoices ==
  {[present |-> TRUE, tasks |-> <<>>, corrupt |-> "unparsable"],
   [present |-> TRUE, tasks |-> <<StoredTask>>, corrupt |-> "noArray"]}
InitLoad ==
  \E stored \in StoredChoices \cup CorruptChoices : \E available \in BOOLEAN :
    InitWith(stored, available)
NextLoad ==
  \/ StartUp
  \/ CallerOp(MaxLoadOps) /\ LoadTasks
  \/ CallerOp(MaxLoadOps) /\ LoadFromStorage
  \/ CallerOp(MaxLoadOps) /\ \E rnd \in 1..MaxRand : CreateTask(TitleInput(<<"a">>, ""), rnd)
  \/ DebouncedSaveFires
  \/ HideTimerFires(MaxLoadOps)
SpecLoad == InitLoad /\ [][NextLoad]_vars

\* ------------------------------------------------------------------------
\* Properties
\* ------------------------------------------------------------------------
\* the in-memory task collection and the collection under the tasks key
MemTasks == IF Has(state, "tasks") THEN state.tasks ELSE <<>>
PersistedTasks == IF tasksKey.present THEN tasksKey.tasks ELSE <<>>
TaskOpNames == {"createTask", "updateTask", "toggleTaskComplete", "deleteTask"}
UiOpNames ==
  {"setFilter", "clearFilters", "setTheme", "toggleSidebar", "openModal", "closeModal",
   "showNotification", "hideNotification", "setLoading", "setEditingTask"}
\* the part of the state a failed call must leave alone
Kept(s) == [k \in DOMAIN s \cap {"tasks", "filters", "settings"} |-> s[k]]
\* a title validateTitle has to refuse
InvalidTitle(input) ==
  \/ ~input.hasTitle
  \/ \A i \in DOMAIN input.title : input.title[i] = " "
  \/ Len(Trim(input.title)) > 500
\* the same world with no external subscriber and no middleware
Undisturbed(w) == [w EXCEPT !.extSub = FALSE, !.extMiddleware = FALSE]

\* a setState call that reaches its end without throwing
Succeeded(st, u) ==
  /\ ~applyUpdates(st, u).threw
  /\ ~updateStatisticsThrows(applyUpdates(st, u).value)
\* a state without its derived statistics
Restored(s) == [k \in DOMAIN s \ {"statistics"} |-> s[k]]

\* the same world without the subscriber that throws
NoThrower(w) == [w EXCEPT !.throwSub = FALSE]
\* the subscribers registered: the auto-save subscriber and those from outside
Registered ==
  (IF boot = "ready" THEN 1 ELSE 0) + (IF throwSub THEN 1 ELSE 0) + (IF extSub THEN 1 ELSE 0)
  + (IF recSub THEN 1 ELSE 0)

\* the task of that id is in the collection and has completedAt exactly when
\* it is completed
CompletedAtAgrees(st, id) ==
  InCollection(st, id) /\ (TaskOf(st, id).completedAt = Null <=> ~TaskOf(st, id).completed)
\* the tasks of the collection, none when state.tasks is gone
CollectionOf(st) == IF Has(st, "tasks") THEN st.tasks ELSE <<>>
\* the id a call of updateTask, deleteTask or toggleTaskComplete was given
IdOps == {"updateTask", "deleteTask", "toggleTaskComplete"}
CalledId(r) ==
  CASE r.op = "updateTask" -> r.arg[1]
    [] r.op = "deleteTask" -> r.arg
    [] r.op = "toggleTaskComplete" -> r.arg.id
\* the place of the task of that id in a list
PlaceOf(tasks, id) == CHOOSE i \in DOMAIN tasks : tasks[i].id = id
\* Start-up with facade calls made before the stored tasks have arrived:
\* createTask runs synchronously up to its return, so a caller holding the
\* TaskManager can add a task before either load callback has run.
MaxBootOps == 2
EarlyOp(budget) == boot # "ready" /\ ops < budget /\ ops' = ops + 1
NextBoot ==
  \/ StartUp
  \/ EarlyOp(MaxBootOps)
       /\ \E input \in ValidInputs \cup {MissingTitle} : \E rnd \in 1..MaxRand :
            CreateTask(input, rnd)
  \/ CallerOp(MaxBootOps) /\ \E rnd \in 1..MaxRand : CreateTask(TitleInput(<<"a">>, ""), rnd)
  \/ DebouncedSaveFires
  \/ HideTimerFires(MaxBootOps)
SpecBoot == Init /\ [][NextBoot]_vars

\* the filter set, the UI flags and the settings of a state
FrameOf(st) == [k \in DOMAIN st \cap {"filters", "ui", "settings"} |-> st[k]]
\* the store holds nothing under the tasks, settings and UI state keys
EmptyStore == ~tasksKey.present /\ ~settingsKey.present /\ uiStateBytes = 0
\* what the claims compare of a stored task
TaskCore(t) ==
  [id |-> t.id, title |-> t.title, completed |-> t.completed, priority |-> t.priority,
   completedAt |-> t.completedAt]
TaskCores(tasks) == [i \in DOMAIN tasks |-> TaskCore(tasks[i])]

\* C1: after any sequence of createTask, updateTask, toggleTaskComplete,
\* deleteTask, clearCompletedTasks and undo, every task in the collection has
\* a non-null completedAt exactly when its completed flag is true.
C1_CompletedAtIffCompleted ==
  \A i \in DOMAIN MemTasks : (MemTasks[i].completedAt # Null) <=> MemTasks[i].completed

\* C2: when the debounce timer fires after a burst of task mutations, the
\* burst has caused exactly one write of the task collection, and the stored
\* collection equals the in-memory collection.
C2_OneWritePerBurst ==
  (ret.op = "debouncedSave" /\ isAvailable)
    => obs.burstWrites = 1 /\ PersistedTasks = MemTasks

\* C3: when the store is available and the quota is not exceeded, at the
\* moment createTask, updateTask, toggleTaskComplete or deleteTask returns,
\* the collection under the tasks key equals the in-memory collection.
C3_PersistedOnReturn ==
  (ret.op \in TaskOpNames /\ ret.outcome = "ok" /\ isAvailable /\ ~obs.quotaHit)
    => PersistedTasks = MemTasks

\* C4: the collection the debounce timer writes is the in-memory collection
\* at the time it fires.
C4_TimerWritesLatest ==
  (ret.op = "debouncedSave" /\ isAvailable)
    => Has(state, "tasks") /\ obs.wrote = 1 /\ tasksKey.tasks = state.tasks

\* C6: when the store is unavailable or rejects a write for quota, a task
\* operation ends as it does with a working store (it does not throw) and
\* leaves the same in-memory task collection.
C6_StoreFailureKeepsMemory ==
  (ret.op \in TaskOpNames /\ (~isAvailable \/ obs.quotaHit) /\ obs.ref.outcome = "ok")
    => ret.outcome = "ok" /\ StateTasksArg(state) = obs.ref.tasks

\* C8: a facade call that fails (validation error, task not found) leaves
\* the task collection, the filters and the settings as they were.
C8_FailedCallChangesNothing ==
  [][(ret'.op \in TaskOpNames /\ ret'.outcome \in {"validation", "notFound"})
       => Kept(state') = Kept(state)]_vars

\* C9: filter, theme, sidebar, modal, notification, loading and editing-task
\* operations never alter the task collection.
C9_UiOpsKeepTasks ==
  [][ret'.op \in UiOpNames => StateTasksArg(state') = StateTasksArg(state)]_vars

\* C5: a saveTasks call whose serialized value plus the usage of the
\* application's keys exceeds the 5 MiB ceiling leaves every stored value as
\* it was and returns false.
C5_QuotaRejectsWrite ==
  [][(/\ ret'.op = "saveTasks"
      /\ isAvailable
      /\ StorageUsed(W) + getDataSize(validateTasks(ret'.arg)) > MAX_STORAGE_SIZE)
       => (/\ ret'.outcome = "false"
           /\ tasksKey' = tasksKey
           /\ uiStateBytes' = uiStateBytes)]_vars
\* a write over the ceiling was refused while an older, different record was
\* stored
C5_Witness ==
  /\ ret.op = "saveTasks" /\ ret.outcome = "false" /\ obs.quotaHit
  /\ tasksKey.present /\ tasksKey.tasks # <<>> /\ tasksKey.tasks # ret.arg

\* C7: createTask with a title that is missing, empty, only white space or
\* longer than 500 characters after trimming fails with a validation error,
\* adds no task, writes nothing to the store and schedules no write.
C7_InvalidTitleRejected ==
  [][(ret'.op = "createTask" /\ InvalidTitle(ret'.arg))
       => (/\ ret'.outcome = "validation"
           /\ Len(MemTasks') <= Len(MemTasks)
           /\ Range(MemTasks') \subseteq Range(MemTasks)
           /\ obs'.wrote = 0
           /\ tasksKey' = tasksKey
           /\ timer' = timer)]_vars
\* an over-long title was rejected while an earlier write was still scheduled
C7_Witness ==
  /\ ret.op = "createTask" /\ ret.outcome = "validation"
  /\ ret.arg.hasTitle /\ Len(Trim(ret.arg.title)) > 500
  /\ timer.pending

\* C10: a setState call made while another is in progress changes neither
\* the state nor the history and notifies nobody, and the outer call ends in
\* the state it reaches when nobody calls setState during it.
C10_ReentrantIgnored ==
  [][/\ ~obs'.reentrantChanged
     /\ (ret'.op = "setState" /\ obs'.reentrantCalls > 0)
          => state' = setState(Undisturbed(W), [ret'.arg EXCEPT !.reenter = FALSE],
                               "external", 0).state]_vars
\* a subscriber called setState during an update that succeeded
C10_Witness ==
  /\ ret.op = "setState" /\ extSub
  /\ obs.reentrantCalls > 0 /\ obs.notified = 1

\* C14: writing into a value returned by getState (its settings, its task
\* array, its task objects) changes neither the current state nor any
\* history entry.
C14_GetStateIsACopy ==
  [][(ret'.op = "mutate" /\ held.kind = "state")
       => (state' = state /\ history' = history)]_vars
\* the caller changed a task and a setting of the tree it got while the
\* state held tasks and the history held entries
C14_Witness ==
  /\ ret.op = "mutate" /\ held.kind = "state"
  /\ Has(state, "tasks") /\ state.tasks # <<>> /\ Has(state, "settings") /\ history # <<>>
  /\ held.value.tasks # state.tasks /\ held.value.settings # state.settings

\* C15: writing into a task object returned by createTask, updateTask,
\* toggleTaskComplete, getTask or getAllTasks never changes the task held in
\* the state's collection.
C15_ReturnedTasksAreCopies ==
  [][(ret'.op = "mutate" /\ held.kind \in {"task", "tasks"})
       => StateTasksArg(state') = StateTasksArg(state)]_vars

\* C11: the history never holds more than maxHistorySize entries; a
\* successful setState appends the state as it was before the update, and at
\* the bound the oldest entry is the one dropped.
C11_HistoryBounded ==
  /\ Len(history) <= maxHistorySize
  /\ [][/\ Len(history') <= maxHistorySize
        /\ (ret'.op = "setState" /\ Succeeded(state, ret'.arg))
             => history' = Append(IF Len(history) < maxHistorySize THEN history
                                  ELSE Tail(history),
                                  [state |-> state, source |-> "external"])]_vars
\* a changed state was pushed onto a full history
C11_Witness ==
  /\ ret.op = "setState" /\ Len(history) = maxHistorySize
  /\ history[maxHistorySize].state # getInitialState
  /\ history[maxHistorySize - 1].state = getInitialState

\* C12: undo removes the most recent history entry and makes its tasks,
\* filters, UI flags and settings the current state; with an empty history it
\* fails and changes neither state nor history.
C12_UndoRestores ==
  [][ret'.op = "undo" =>
       IF history = <<>>
       THEN ret'.outcome = "nothingToUndo" /\ state' = state /\ history' = history
       ELSE /\ Restored(state') = Restored(history[Len(history)].state)
            /\ history' = SubSeq(history, 1, Len(history) - 1)]_vars
\* an undo brought back changed settings after a createTask had replaced them
C12_Witness ==
  /\ ret.op = "undo" /\ ret.outcome = "ok"
  /\ Has(state, "settings") /\ ~state.settings.confirmDeletion
  /\ Has(state, "tasks") /\ state.tasks = <<>>
  /\ Len(history) \in {1, maxHistorySize - 1}

\* C13: when a subscriber throws while it is notified of an update, every
\* subscriber registered is still invoked for that update, the update is
\* kept (the state is the one reached without the throwing subscriber) and
\* setState returns normally.
C13_ThrowingSubscriberIsolated ==
  [][(ret'.op = "setState" /\ throwSub /\ obs'.notified = 1)
       => (/\ obs'.invoked = Registered
           /\ state' = setState(NoThrower(W), ret'.arg, "external", 0).state
           /\ history' = setState(NoThrower(W), ret'.arg, "external", 0).history
           /\ ret'.outcome = "ok")]_vars
\* an update went to the auto-save subscriber, one that throws and one
\* registered after it, with the application's error listener in place
C13_Witness ==
  /\ ret.op = "setState" /\ throwSub /\ extSub /\ appListening
  /\ obs.notified = 1 /\ obs.invoked = 3
  /\ Has(state, "settings") /\ ~state.settings.confirmDeletion

\* C16: when a step of importData fails after the input passed validation,
\* the store afterwards holds the tasks, settings and UI state it held
\* before, and importData reports failure.
C16_ImportRollsBack ==
  [][(ret'.op = "importData" /\ validateImportData(ret'.arg) /\ obs'.saveFailed)
       => (/\ tasksKey' = tasksKey
           /\ settingsKey' = settingsKey
           /\ uiStateBytes' = uiStateBytes
           /\ ret'.outcome = "failed")]_vars

\* C17: importing the output of exportData into an empty store with room for
\* it stores exactly the exported tasks (ids, titles, completed flags,
\* priorities, completedAt).
C17_ExportImportRoundTrip ==
  [][(ret'.op = "importData" /\ ret'.arg \in ExportOutputs /\ isAvailable /\ EmptyStore)
       => (/\ ret'.outcome = "success"
           /\ tasksKey'.present
           /\ TaskCores(tasksKey'.tasks) = TaskCores(ret'.arg.tasks.tasks))]_vars
\* an export holding a task whose title and priority the store had to adjust
\* was imported into an empty store
C17_Witness ==
  /\ ret.op = "importData" /\ ret.arg \in ExportOutputs /\ ret.outcome = "success"
  /\ ops = 1 /\ ~obs.saveFailed
  /\ Len(ret.arg.tasks.tasks) = 2 /\ Len(ret.arg.tasks.tasks[1].title) = TITLE_MAX_LENGTH
  /\ tasksKey.present /\ tasksKey.tasks = ret.arg.tasks.tasks

\* C18: two toggleTaskComplete calls in a row on a task of the collection
\* leave its completed flag as it was before the first, and after each of
\* the two calls its completedAt is null exactly when completed is false.
C18_ToggleTwice ==
  [][(/\ ret.op = "toggleTaskComplete" /\ ret.arg.present
      /\ ret'.op = "toggleTaskComplete" /\ ops' = ops + 1
      /\ ret'.arg.id = ret.arg.id)
       => (/\ CompletedAtAgrees(state, ret.arg.id)
           /\ CompletedAtAgrees(state', ret.arg.id)
           /\ TaskOf(state', ret.arg.id).completed = ret.arg.completed)]_vars

\* C19: updateTask, deleteTask and toggleTaskComplete fail when no task of
\* the given id is in state.tasks at call time, whatever the cache holds;
\* they never report not-found for an id that is in state.tasks; and a
\* failing call removes or modifies no task.
C19_NotFoundFailsCleanly ==
  [][(ret'.op \in IdOps /\ ops' = ops + 1)
       => (/\ ~InCollection(state, CalledId(ret')) => ret'.outcome # "ok"
           /\ InCollection(state, CalledId(ret')) => ret'.outcome # "notFound"
           /\ ret'.outcome # "ok" => CollectionOf(state') = CollectionOf(state))]_vars

\* C20: the tasks of the collection have pairwise distinct ids after any
\* sequence of createTask calls, calls within one millisecond included.
C20_DistinctIds ==
  \A i, j \in DOMAIN CollectionOf(state) :
    i # j => CollectionOf(state)[i].id # CollectionOf(state)[j].id

\* C21: for every valid input createTask appends exactly one task to the end
\* of the collection, and getTask with the returned id then yields a task
\* whose title is the trimmed input title, whose priority is the input
\* priority or medium when none was given, whose completed is false and whose
\* completedAt is null.
C21_CreateThenGet ==
  [][(ret'.op = "createTask" /\ ops' = ops + 1 /\ validateTaskData(ret'.arg) = {})
       => (/\ ret'.outcome = "ok" /\ held'.kind = "task"
           /\ Len(CollectionOf(state')) = Len(CollectionOf(state)) + 1
           /\ SubSeq(CollectionOf(state'), 1, Len(CollectionOf(state))) = CollectionOf(state)
           /\ CollectionOf(state')[Len(CollectionOf(state'))].id = held'.value.id
           /\ TM_getTask(W', held'.value.id).outcome = "ok"
           /\ TM_getTask(W', held'.value.id).value.title = Trim(ret'.arg.title)
           /\ TM_getTask(W', held'.value.id).value.priority =
                (IF ret'.arg.priority = "" THEN "medium" ELSE ret'.arg.priority)
           /\ ~TM_getTask(W', held'.value.id).value.completed
           /\ TM_getTask(W', held'.value.id).value.completedAt = Null)]_vars

\* C22: clearCompletedTasks removes the completed tasks and no other, keeps
\* the rest in their order, returns exactly the removed tasks, and with no
\* completed task it returns an empty list without an error and leaves the
\* collection as it was.
C22_ClearCompleted ==
  [][(ret'.op = "clearCompletedTasks" /\ ops' = ops + 1)
       => (/\ ret'.outcome = "ok"
           /\ CollectionOf(state') = SelectSeq(CollectionOf(state), LAMBDA t : ~t.completed)
           /\ ret'.arg = SelectSeq(CollectionOf(state), LAMBDA t : t.completed))]_vars

\* C23: sortTasks is stable in both directions: two tasks with equal sort
\* keys come out in the relative order they had in the input, for asc and
\* for desc and any sort field, and the input list is not reordered.
C23_SortStable ==
  [][ret'.op = "sortTasks"
       => (/\ held'.value.input = ret'.arg.tasks
           /\ {t.id : t \in Range(held'.value.output)} = {t.id : t \in Range(ret'.arg.tasks)}
           /\ Len(held'.value.output) = Len(ret'.arg.tasks)
           /\ \A i, j \in DOMAIN ret'.arg.tasks :
                (i < j /\ SortValue(ret'.arg.tasks[i], SortField(ret'.arg.sortBy))
                           = SortValue(ret'.arg.tasks[j], SortField(ret'.arg.sortBy)))
                  => PlaceOf(held'.value.output, ret'.arg.tasks[i].id)
                       < PlaceOf(held'.value.output, ret'.arg.tasks[j].id))]_vars
\* a descending sort by title moved a task in front of two tasks whose titles
\* differ only in case, and these two kept their order
C23_Witness ==
  /\ ret.op = "sortTasks" /\ ret.arg.direction = "desc" /\ ret.arg.sortBy = "title"
  /\ ret.arg.tasks = <<TaskA2, TaskA, TaskB>>
  /\ held.value.output = <<TaskB, TaskA2, TaskA>>

C25_SubscribersNotified ==
  [][(ret'.op = "setState" /\ ops' = ops + 1 /\ Succeeded(state, ret'.arg))
       => (/\ obs'.notified = 1
           /\ obs'.invoked = Registered
           /\ recSub => obs'.seen = <<[newState |-> state', previousState |-> state,
                                        source |-> "external"]>>)]_vars
\* the recording subscriber, registered after one that throws and one that
\* calls setState, was told of an update that changed the settings
C25_Witness ==
  /\ ret.op = "setState" /\ recSub /\ throwSub /\ extSub /\ appListening
  /\ obs.invoked = 4 /\ Len(obs.seen) = 1
  /\ obs.seen[1].newState = state /\ obs.seen[1].previousState # state
  /\ Has(state, "settings") /\ ~state.settings.confirmDeletion

\* C26: isUpdating is true only while a setState call runs: once a handler
\* has returned it is false, whether its setState calls succeeded, were
\* ignored as re-entrant or hit an exception, so a later top-level setState
\* is carried out.
C26_IsUpdatingCleared ==
  /\ ~isUpdating
  /\ [][/\ ~isUpdating'
        /\ (ret'.op = "setState" /\ ops' = ops + 1 /\ Succeeded(state, ret'.arg))
             => (obs'.notified = 1 /\ Len(history') = Len(history) + 1)]_vars
\* a setState whose update function called setState hit the exception of the
\* statistics step, its error notification was ignored as re-entrant, and
\* isUpdating is false after it
C26_Witness ==
  /\ ret.op = "setState" /\ ~isUpdating /\ ret.arg.reenter
  /\ obs.notified = 0 /\ obs.reentrantCalls >= 2 /\ ~Has(state, "tasks")

\* C27: the task operations leave the filter set, the UI flags and the
\* settings of the state as they were.
C27_TaskOpsKeepFrame ==
  [][(ret'.op \in TaskOpNames \cup {"clearCompletedTasks"} /\ ops' = ops + 1
        /\ ret'.outcome = "ok")
       => FrameOf(state') = FrameOf(state)]_vars

\* C28: once the application is ready and while the state holds a task
\* collection, getTask(id) returns the task of that id in the collection, and returns no task exactly when the
\* collection has none of that id.
C28_CacheAgreesWithState ==
  (boot = "ready" /\ Has(state, "tasks")) =>
    \A id \in KnownIds :
      IF InCollection(state, id)
      THEN TM_getTask(W, id).outcome = "ok" /\ TM_getTask(W, id).value = TaskOf(state, id)
      ELSE TM_getTask(W, id).outcome # "ok"

\* C29: a setState call in which an exception occurs leaves the state and
\* the history exactly as they were and notifies no subscriber.
C29_FailedSetStateIsAtomic ==
  [][(ret'.op = "setState" /\ ops' = ops + 1 /\ ~Succeeded(state, ret'.arg))
       => (state' = state /\ history' = history /\ obs'.notified = 0)]_vars

\* C30: a load callback of the start-up (StateManager constructor,
\* TaskManager.init) keeps every task that is in the collection when it runs,
\* so a task created before the loads completed is still there afterwards.
C30_EarlyTaskSurvivesLoad ==
  [][ret'.op \in {"init:loadTasks", "taskManager.init"}
       => \A i \in DOMAIN CollectionOf(state) :
            InCollection(state', CollectionOf(state)[i].id)]_vars

====
